---- MODULE Spec2Model ----
(***************************************************************************)
(* Model of the quickchat relay server (src/server.js, the validated       *)
(* server that starts at line 67).  One action per socket event handler;   *)
(* every handler runs to completion (Node's single-threaded event loop).   *)
(* JavaScript strings are modelled as sequences of one-character strings,  *)
(* so that String.prototype.trim and the UUID regular expression are       *)
(* computed, not assumed.                                                  *)
(***************************************************************************)
EXTENDS Integers, Sequences, FiniteSets, TLC

VARIABLES connected, socketToUserMap, rooms, chatHistory, subscribed,
          emitted, last, accepted

vars == <<connected, socketToUserMap, rooms, chatHistory, subscribed,
          emitted, last, accepted>>

stores == <<socketToUserMap, rooms, chatHistory, subscribed>>

-----------------------------------------------------------------------------
(* Bounds of the model *)

NumConns == 2

MaxHist == 1

MaxOver == 3

(* Program constants *)

HISTORY_LIMIT == 100

UUID_LENGTH == 36

-----------------------------------------------------------------------------
(* Strings *)

Rep(ch, n) == [i \in 1..n |-> ch]

Undefined == <<"undefined">>

HexDigits == {"0", "1", "2", "3", "4", "5", "6", "7", "8", "9",
              "a", "b", "c", "d", "e", "f", "A", "B", "C", "D", "E", "F"}

HyphenPositions == {9, 14, 19, 24}

IsWhitespace(ch) == ch \in {" ", "\t", "\n"}

Truthy(s) == s # Undefined /\ s # <<>>

RECURSIVE TrimStart(_)
TrimStart(s) ==
  IF s = <<>> THEN s
  ELSE IF IsWhitespace(Head(s)) THEN TrimStart(Tail(s)) ELSE s

RECURSIVE TrimEnd(_)
TrimEnd(s) ==
  IF s = <<>> THEN s
  ELSE IF IsWhitespace(s[Len(s)]) THEN TrimEnd(SubSeq(s, 1, Len(s) - 1)) ELSE s

trim(s) == TrimEnd(TrimStart(s))

isValidUUID_AnyChar(str) ==
  /\ Len(str) = UUID_LENGTH
  /\ \A i \in HyphenPositions : str[i] = "-"

isValidUUID(str) ==
  /\ Len(str) = UUID_LENGTH
  /\ \A i \in 1..UUID_LENGTH :
        IF i \in HyphenPositions THEN str[i] = "-" ELSE str[i] \in HexDigits

Digit == <<"0", "1", "2", "3", "4", "5", "6", "7", "8", "9">>

RECURSIVE Digits(_)
Digits(n) ==
  IF n < 10 THEN <<Digit[n + 1]>>
  ELSE Digits(n \div 10) \o <<Digit[(n % 10) + 1]>>

-----------------------------------------------------------------------------
(* Inputs the clients may send *)

Conns == 1..NumConns

Uuid(ch) ==
  Rep(ch, 8) \o <<"-">> \o Rep(ch, 4) \o <<"-">> \o Rep(ch, 4) \o <<"-">>
    \o Rep(ch, 4) \o <<"-">> \o Rep(ch, 12)

RoomA == Uuid("1")

RoomB == Uuid("F")

RoomNotHex == Rep("g", 8) \o SubSeq(RoomA, 9, 36)

RoomIdInputs == {RoomA, RoomB, RoomNotHex}

UsernameInputs == {Undefined, <<" ">>, <<"a">>, <<" ", "b", " ">>}

MessageInputs == {<<" ">>, <<"h", "\n">>}

TimestampInputs == {Undefined, <<"t">>}

ClockReadings == {<<"c">>}

-----------------------------------------------------------------------------
(* JavaScript Set (insertion ordered) and plain-object helpers *)

Range(f) == {f[i] : i \in DOMAIN f}

SetAdd(s, x) == IF \E i \in 1..Len(s) : s[i] = x THEN s ELSE Append(s, x)

SetDelete(s, x) == SelectSeq(s, LAMBDA y : y # x)

Put(obj, k, v) == [x \in DOMAIN obj \cup {k} |-> IF x = k THEN v ELSE obj[x]]

Delete(obj, k) == [x \in DOMAIN obj \ {k} |-> obj[x]]

Get(obj, k, default) == IF k \in DOMAIN obj THEN obj[k] ELSE default

Max(a, b) == IF a > b THEN a ELSE b

SliceLast(s, n) == SubSeq(s, Max(Len(s) - n, 0) + 1, Len(s))

Event(name, to, payload) == [event |-> name, to |-> to, payload |-> payload]

InRoom(sub, roomId) == {c \in Conns : roomId \in sub[c]}

NoArgs == [roomId |-> Undefined, username |-> Undefined, message |-> Undefined]

-----------------------------------------------------------------------------
Init ==
  /\ connected = {}
  /\ socketToUserMap = <<>>
  /\ rooms = <<>>
  /\ chatHistory = <<>>
  /\ subscribed = [c \in Conns |-> {}]
  /\ emitted = <<>>
  /\ last = [kind |-> "init", socket |-> 0, args |-> NoArgs]
  /\ accepted = <<>>

-----------------------------------------------------------------------------
(* Messages accepted into each room's history since that history was last  *)
(* created: an observer of the handlers, not program state.                *)

Log(H, roomId, msgs) ==
  [r \in DOMAIN H |->
     IF r = roomId THEN Get(accepted, r, <<>>) \o msgs ELSE Get(accepted, r, <<>>)]

Handled(kind, c, roomId, username, message) ==
  [kind |-> kind, socket |-> c,
   args |-> [roomId |-> roomId, username |-> username, message |-> message]]

-----------------------------------------------------------------------------
(* Handlers *)

IsBlank_NoTrim(s) == ~Truthy(s)

IsBlank(s) == ~Truthy(s) \/ Len(trim(s)) = 0

IoTo(sub, roomId) == InRoom(sub, roomId)

SocketTo_IncludeSender(sub, c, roomId) == InRoom(sub, roomId)

SocketTo(sub, c, roomId) == InRoom(sub, roomId) \ {c}

Authorized_RoomOnly(c, roomId, username) ==
  /\ c \in DOMAIN socketToUserMap
  /\ socketToUserMap[c].roomId = roomId

Authorized_Anyone(c, roomId, username) == TRUE

Authorized_NameOnly(c, roomId, username) ==
  /\ c \in DOMAIN socketToUserMap
  /\ socketToUserMap[c].username = trim(username)

Authorized(c, roomId, username) ==
  /\ c \in DOMAIN socketToUserMap
  /\ socketToUserMap[c].roomId = roomId
  /\ socketToUserMap[c].username = trim(username)

AppendCapped_Unbounded(h, msg) == Append(h, msg)

AppendCapped_KeepOldest(h, msg) ==
  LET pushed == Append(h, msg)
  IN IF Len(pushed) > HISTORY_LIMIT THEN SubSeq(pushed, 1, HISTORY_LIMIT) ELSE pushed

AppendCapped(h, msg) ==
  LET pushed == Append(h, msg)
  IN IF Len(pushed) > HISTORY_LIMIT THEN SliceLast(pushed, HISTORY_LIMIT) ELSE pushed

Backfill_Nothing(H, roomId) == <<>>

Backfill(H, roomId) == Get(H, roomId, <<>>)

cleanupRoom_AlwaysClear(R, H, roomId) ==
  IF roomId \in DOMAIN R /\ Len(R[roomId]) = 0
  THEN [rooms |-> Delete(R, roomId), chatHistory |-> Delete(H, roomId)]
  ELSE [rooms |-> R, chatHistory |-> Delete(H, roomId)]

cleanupRoom_KeepHistory(R, H, roomId) ==
  IF roomId \in DOMAIN R /\ Len(R[roomId]) = 0
  THEN [rooms |-> Delete(R, roomId), chatHistory |-> H]
  ELSE [rooms |-> R, chatHistory |-> H]

cleanupRoom(R, H, roomId) ==
  IF roomId \in DOMAIN R /\ Len(R[roomId]) = 0
  THEN [rooms |-> Delete(R, roomId), chatHistory |-> Delete(H, roomId)]
  ELSE [rooms |-> R, chatHistory |-> H]

SocketLeave_Noop(sub, c, roomId) == sub

SocketLeave(sub, c, roomId) == [sub EXCEPT ![c] = @ \ {roomId}]

SocketJoin_Noop(sub, c, roomId) == sub

SocketJoin(sub, c, roomId) == [sub EXCEPT ![c] = @ \cup {roomId}]

SocketLeaveAll(sub, c) == [sub EXCEPT ![c] = {}]

RemoveMember_Noop(R, roomId, username) == R

RemoveMember(R, roomId, username) ==
  IF roomId \in DOMAIN R
  THEN [R EXCEPT ![roomId] = SetDelete(@, username)]
  ELSE R

Connect(c) ==
  /\ c \notin connected
  /\ connected' = connected \cup {c}
  /\ emitted' = <<>>
  /\ last' = Handled("connection", c, Undefined, Undefined, Undefined)
  /\ UNCHANGED <<stores, accepted>>

JoinRoom(c, roomId, username) ==
  /\ c \in connected
  /\ last' = Handled("join-room", c, roomId, username, Undefined)
  /\ UNCHANGED connected
  /\ IF ~isValidUUID(roomId) THEN
       /\ emitted' = <<Event("room-error", {c}, "Invalid room ID format")>>
       /\ UNCHANGED <<stores, accepted>>
     ELSE IF IsBlank(username) THEN
       /\ emitted' = <<Event("room-error", {c}, "Username is required")>>
       /\ UNCHANGED <<stores, accepted>>
     ELSE
       LET cleanUsername == trim(username)
           hasPrevious == c \in DOMAIN socketToUserMap
           previousInfo == socketToUserMap[c]
           sub1 == IF hasPrevious
                   THEN SocketLeave(subscribed, c, previousInfo.roomId)
                   ELSE subscribed
           R1 == IF hasPrevious
                 THEN RemoveMember(rooms, previousInfo.roomId, previousInfo.username)
                 ELSE rooms
           cl == IF hasPrevious
                 THEN cleanupRoom(R1, chatHistory, previousInfo.roomId)
                 ELSE [rooms |-> R1, chatHistory |-> chatHistory]
           ev1 == IF hasPrevious
                  THEN <<Event("update-users", IoTo(sub1, previousInfo.roomId),
                               Get(cl.rooms, previousInfo.roomId, <<>>))>>
                  ELSE <<>>
           sub2 == SocketJoin(sub1, c, roomId)
           R2 == IF roomId \in DOMAIN cl.rooms THEN cl.rooms
                 ELSE Put(cl.rooms, roomId, <<>>)
           R3 == [R2 EXCEPT ![roomId] = SetAdd(@, cleanUsername)]
       IN /\ subscribed' = sub2
          /\ socketToUserMap' =
               Put(socketToUserMap, c, [username |-> cleanUsername, roomId |-> roomId])
          /\ rooms' = R3
          /\ chatHistory' = cl.chatHistory
          /\ accepted' = Log(cl.chatHistory, roomId, <<>>)
          /\ emitted' = ev1 \o
               <<Event("chat-history", {c}, Backfill(cl.chatHistory, roomId)),
                 Event("update-users", IoTo(sub2, roomId), R3[roomId])>>

SendMessage(c, roomId, message, username, timestamp, clock) ==
  /\ c \in connected
  /\ last' = Handled("send-message", c, roomId, username, message)
  /\ UNCHANGED <<connected, socketToUserMap, rooms, subscribed>>
  /\ IF ~isValidUUID(roomId) THEN
       /\ emitted' = <<Event("room-error", {c}, "Invalid room ID")>>
       /\ UNCHANGED <<chatHistory, accepted>>
     ELSE IF IsBlank(message) THEN
       /\ emitted' = <<>>
       /\ UNCHANGED <<chatHistory, accepted>>
     ELSE IF IsBlank(username) THEN
       /\ emitted' = <<Event("room-error", {c}, "Username is required")>>
       /\ UNCHANGED <<chatHistory, accepted>>
     ELSE IF ~Authorized(c, roomId, username) THEN
       /\ emitted' = <<Event("room-error", {c}, "Unauthorized message")>>
       /\ UNCHANGED <<chatHistory, accepted>>
     ELSE
       LET msg == [message |-> trim(message),
                   username |-> trim(username),
                   timestamp |-> IF Truthy(timestamp) THEN timestamp ELSE clock]
           H1 == IF roomId \in DOMAIN chatHistory THEN chatHistory
                 ELSE Put(chatHistory, roomId, <<>>)
           H3 == [H1 EXCEPT ![roomId] = AppendCapped(@, msg)]
       IN /\ chatHistory' = H3
          /\ accepted' = Log(H3, roomId, <<msg>>)
          /\ emitted' = <<Event("receive-message", SocketTo(subscribed, c, roomId), msg)>>

Disconnect(c) ==
  /\ c \in connected
  /\ connected' = connected \ {c}
  /\ last' = Handled("disconnect", c, Undefined, Undefined, Undefined)
  /\ LET sub1 == SocketLeaveAll(subscribed, c)
         hasInfo == c \in DOMAIN socketToUserMap
         userInfo == socketToUserMap[c]
         inRegistry == hasInfo /\ userInfo.roomId \in DOMAIN rooms
         R1 == IF inRegistry
               THEN RemoveMember(rooms, userInfo.roomId, userInfo.username)
               ELSE rooms
         cl == IF inRegistry
               THEN cleanupRoom(R1, chatHistory, userInfo.roomId)
               ELSE [rooms |-> rooms, chatHistory |-> chatHistory]
     IN /\ subscribed' = sub1
        /\ rooms' = cl.rooms
        /\ chatHistory' = cl.chatHistory
        /\ accepted' = Log(cl.chatHistory, Undefined, <<>>)
        /\ emitted' = IF inRegistry
                      THEN <<Event("update-users", IoTo(sub1, userInfo.roomId),
                                   R1[userInfo.roomId])>>
                      ELSE <<>>
        /\ socketToUserMap' = Delete(socketToUserMap, c)

-----------------------------------------------------------------------------
(* The server under arbitrary clients; histories are explored up to MaxHist *)

RECURSIVE Stored(_, _)
Stored(H, rs) ==
  IF rs = {} THEN 0
  ELSE LET r == CHOOSE x \in rs : TRUE IN Len(H[r]) + Stored(H, rs \ {r})

HistoryWithin(H, n) == Stored(H, DOMAIN H) <= n

ClientSend(c) ==
  \E roomId \in RoomIdInputs, message \in MessageInputs,
     username \in UsernameInputs, timestamp \in TimestampInputs,
     clock \in ClockReadings :
    /\ SendMessage(c, roomId, message, username, timestamp, clock)
    /\ HistoryWithin(chatHistory', MaxHist)

ClientJoin(c) ==
  \E roomId \in RoomIdInputs, username \in UsernameInputs :
    JoinRoom(c, roomId, username)

Next ==
  \E c \in Conns :
    \/ Connect(c)
    \/ ClientJoin(c)
    \/ ClientSend(c)
    \/ Disconnect(c)

Spec == Init /\ [][Next]_vars

(* One room filled past its capacity: socket 1 ("a") sends numbered        *)
(* messages to RoomA while the other sockets come and go as "b".           *)

WindowName(c) == IF c = 1 THEN <<"a">> ELSE <<"b">>

WindowSent == Len(Get(accepted, RoomA, <<>>))

WindowJoin(c) == JoinRoom(c, RoomA, WindowName(c))

WindowSend ==
  \E clock \in ClockReadings :
    /\ WindowSent < HISTORY_LIMIT + MaxOver
    /\ SendMessage(1, RoomA, <<"h">>, <<"a">>, Digits(WindowSent + 1), clock)

NextWindow ==
  \/ \E c \in Conns : Connect(c)
  \/ \E c \in Conns : WindowJoin(c)
  \/ WindowSend
  \/ \E c \in Conns : Disconnect(c)

SpecWindow == Init /\ [][NextWindow]_vars

TypeOK ==
  /\ connected \subseteq Conns
  /\ DOMAIN socketToUserMap \subseteq connected
  /\ \A r \in DOMAIN rooms : isValidUUID(r)
  /\ \A r \in DOMAIN chatHistory : isValidUUID(r)

-----------------------------------------------------------------------------
(* Vocabulary of the properties *)

Members(r) == IF r \in DOMAIN rooms THEN Range(rooms[r]) ELSE {}

MemberCount(R, r) == IF r \in DOMAIN R THEN Len(R[r]) ELSE 0

HasSession(c, u, r) ==
  /\ c \in connected
  /\ c \in DOMAIN socketToUserMap
  /\ socketToUserMap[c] = [username |-> u, roomId |-> r]

KnownRooms == DOMAIN rooms \cup {socketToUserMap[c].roomId : c \in DOMAIN socketToUserMap}

KnownNames ==
  UNION {Members(r) : r \in DOMAIN rooms}
    \cup {socketToUserMap[c].username : c \in DOMAIN socketToUserMap}

HexRun(s, from, to) == \A i \in from..to : s[i] \in HexDigits

WellFormedRoomId(s) ==
  /\ Len(s) = 36
  /\ HexRun(s, 1, 8) /\ s[9] = "-"
  /\ HexRun(s, 10, 13) /\ s[14] = "-"
  /\ HexRun(s, 15, 18) /\ s[19] = "-"
  /\ HexRun(s, 20, 23) /\ s[24] = "-"
  /\ HexRun(s, 25, 36)

EmptyAfterTrim(s) == s = Undefined \/ \A i \in 1..Len(s) : s[i] \in {" ", "\t", "\n"}

RECURSIVE Stripped(_)
Stripped(s) ==
  IF s = <<>> THEN s
  ELSE IF Head(s) \in {" ", "\t", "\n"} THEN Stripped(Tail(s))
  ELSE IF s[Len(s)] \in {" ", "\t", "\n"} THEN Stripped(SubSeq(s, 1, Len(s) - 1))
  ELSE s

JoinAccepted(c) ==
  /\ last'.kind = "join-room"
  /\ last'.socket = c
  /\ WellFormedRoomId(last'.args.roomId)
  /\ ~EmptyAfterTrim(last'.args.username)

JoinRejected(c) ==
  /\ last'.kind = "join-room"
  /\ last'.socket = c
  /\ ~WellFormedRoomId(last'.args.roomId) \/ EmptyAfterTrim(last'.args.username)

Disconnected(c) == last'.kind = "disconnect" /\ last'.socket = c

-----------------------------------------------------------------------------
(* C1 - Membership consistency: a username is in a room's member set iff   *)
(* some live connection's session is exactly that (username, room) pair.   *)
C1_MembershipConsistency ==
  \A r \in KnownRooms, u \in KnownNames :
    u \in Members(r) <=> \E c \in Conns : HasSession(c, u, r)

(* C2 - Room lifecycle: after every event each registered room has at      *)
(* least one member, and when a disconnect or a rejoin-vacate removes the  *)
(* last member of a room, that room has neither a registry entry nor a     *)
(* history entry when the event completes.                                 *)
RemovesLastMember(c) ==
  /\ c \in DOMAIN socketToUserMap
  /\ Disconnected(c) \/ JoinAccepted(c)
  /\ Members(socketToUserMap[c].roomId) = {socketToUserMap[c].username}

NoEmptyRoom(R) == \A r \in DOMAIN R : Len(R[r]) >= 1

C2_RoomLifecycleAsClaimed ==
  [][/\ NoEmptyRoom(rooms')
     /\ \A c \in Conns :
          RemovesLastMember(c) =>
            /\ socketToUserMap[c].roomId \notin DOMAIN rooms'
            /\ socketToUserMap[c].roomId \notin DOMAIN chatHistory']_vars

(* C2 (amended) - as above, except that when the event is a join-room into *)
(* the very room it vacated, the registry entry is re-created holding only *)
(* the joining username; the history entry is absent in every case.        *)
C2_RoomLifecycle ==
  [][/\ NoEmptyRoom(rooms')
     /\ \A c \in Conns :
          RemovesLastMember(c) =>
            LET old == socketToUserMap[c].roomId
            IN /\ old \notin DOMAIN chatHistory'
               /\ IF JoinAccepted(c) /\ last'.args.roomId = old
                  THEN rooms'[old] = <<Stripped(last'.args.username)>>
                  ELSE old \notin DOMAIN rooms']_vars

C2_Witness ==
  /\ last.kind = "disconnect"
  /\ Len(emitted) = 1
  /\ emitted[1].event = "update-users"
  /\ emitted[1].payload = <<>>
  /\ RoomA \notin DOMAIN rooms
  /\ RoomB \in DOMAIN rooms

(* C3 - A room-id without a registry entry has no history.                 *)
C3_NoHistoryWithoutRoom ==
  \A r \in DOMAIN chatHistory : Len(chatHistory[r]) > 0 => r \in DOMAIN rooms

(* C4 - Rejoin atomicity: a connection in room A that successfully joins   *)
(* room B ends with its session and its subscription naming B only, and    *)
(* A's member count is exactly one less than before (A and its history are *)
(* removed when that count is zero).                                       *)
C4_RejoinAtomicity ==
  [][\A c \in Conns :
       (/\ c \in DOMAIN socketToUserMap
        /\ JoinAccepted(c)
        /\ last'.args.roomId # socketToUserMap[c].roomId) =>
         LET A == socketToUserMap[c].roomId
             B == last'.args.roomId
         IN /\ socketToUserMap'[c].roomId = B
            /\ subscribed'[c] = {B}
            /\ MemberCount(rooms', A) = MemberCount(rooms, A) - 1
            /\ MemberCount(rooms', A) = 0 =>
                 A \notin DOMAIN rooms' /\ A \notin DOMAIN chatHistory']_vars

SendBy(c) == last'.kind = "send-message" /\ last'.socket = c

RoomErrorOnlyTo(E, c) ==
  /\ Len(E) = 1
  /\ E[1].event = "room-error"
  /\ E[1].to = {c}

NameMismatch(c, username) ==
  /\ c \in DOMAIN socketToUserMap
  /\ EmptyAfterTrim(username) \/ Stripped(username) # socketToUserMap[c].username

SessionMatches(c, roomId, username) ==
  /\ c \in DOMAIN socketToUserMap
  /\ socketToUserMap[c].roomId = roomId
  /\ ~EmptyAfterTrim(username)
  /\ socketToUserMap[c].username = Stripped(username)

(* C5 - Authorization: a send-message whose claimed username does not      *)
(* match the sender's session username yields room-error to the sender and *)
(* leaves the history store unchanged, whatever the other payload fields.  *)
C5_AuthorizationAsClaimed ==
  [][\A c \in Conns :
       (SendBy(c) /\ NameMismatch(c, last'.args.username)) =>
         /\ RoomErrorOnlyTo(emitted', c)
         /\ chatHistory' = chatHistory]_vars

(* C5 (amended) - such a send never changes the history store; it yields   *)
(* room-error to the sender unless the room-id is valid and the message is *)
(* empty after trimming, in which case it is dropped with no event at all. *)
C5_Authorization ==
  [][\A c \in Conns :
       (SendBy(c) /\ NameMismatch(c, last'.args.username)) =>
         /\ chatHistory' = chatHistory
         /\ IF WellFormedRoomId(last'.args.roomId) /\ EmptyAfterTrim(last'.args.message)
            THEN emitted' = <<>>
            ELSE RoomErrorOnlyTo(emitted', c)]_vars

C5_Witness ==
  /\ last.kind = "send-message"
  /\ last.socket \in DOMAIN socketToUserMap
  /\ socketToUserMap[last.socket].roomId = last.args.roomId
  /\ ~EmptyAfterTrim(last.args.username)
  /\ ~EmptyAfterTrim(last.args.message)
  /\ Stripped(last.args.username) # socketToUserMap[last.socket].username
  /\ Len(emitted) = 1
  /\ emitted[1].event = "room-error"
  /\ emitted[1].payload = "Unauthorized message"

(* C6 - Silent drop: a send-message whose text is empty after trimming     *)
(* emits nothing and changes no store, whether or not the room-id, the     *)
(* username or the session are valid.                                      *)
C6_SilentDropAsClaimed ==
  [][\A c \in Conns :
       (SendBy(c) /\ EmptyAfterTrim(last'.args.message)) =>
         /\ emitted' = <<>>
         /\ UNCHANGED stores]_vars

(* C6 (amended) - such a send changes no store; it emits nothing when its  *)
(* room-id is valid (whatever the username and the session), and exactly   *)
(* one room-error to the sender when its room-id is invalid.               *)
C6_SilentDrop ==
  [][\A c \in Conns :
       (SendBy(c) /\ EmptyAfterTrim(last'.args.message)) =>
         /\ UNCHANGED stores
         /\ IF WellFormedRoomId(last'.args.roomId)
            THEN emitted' = <<>>
            ELSE RoomErrorOnlyTo(emitted', c)]_vars

C6_Witness ==
  /\ last.kind = "send-message"
  /\ last.args.message # Undefined
  /\ last.args.message # <<>>
  /\ EmptyAfterTrim(last.args.message)
  /\ SessionMatches(last.socket, last.args.roomId, last.args.username)
  /\ chatHistory # <<>>
  /\ emitted = <<>>

(* C7 - History bound: no room's history is ever longer than 100, and an   *)
(* authorized send into a room that already holds 100 messages is accepted *)
(* (stored last, broadcast, no error) with the length staying 100.         *)
C7_HistoryBound ==
  [][/\ \A r \in DOMAIN chatHistory' : Len(chatHistory'[r]) <= 100
     /\ \A c \in Conns :
          (/\ SendBy(c)
           /\ SessionMatches(c, last'.args.roomId, last'.args.username)
           /\ ~EmptyAfterTrim(last'.args.message)
           /\ MemberCount(chatHistory, last'.args.roomId) = 100) =>
            LET h == chatHistory'[last'.args.roomId]
            IN /\ Len(h) = 100
               /\ h[100].message = Stripped(last'.args.message)
               /\ h[100].username = Stripped(last'.args.username)
               /\ Len(emitted') = 1
               /\ emitted'[1].event = "receive-message"
               /\ emitted'[1].payload = h[100]]_vars

C7_Witness ==
  /\ last.kind = "send-message"
  /\ RoomA \in DOMAIN chatHistory
  /\ Len(chatHistory[RoomA]) = 100
  /\ Len(accepted[RoomA]) = 102
  /\ chatHistory[RoomA][100].timestamp = <<"1", "0", "2">>

(* C8 - Sliding window: a room's history is always the longest suffix, of  *)
(* length at most 100, of the messages accepted since the history was last *)
(* cleared, in arrival order (after 101 sends it starts at the 2nd).       *)
C8_SlidingWindow ==
  \A r \in DOMAIN chatHistory :
    LET log == accepted[r]
        n == Len(log)
        k == IF n > 100 THEN 100 ELSE n
    IN /\ Len(chatHistory[r]) = k
       /\ \A i \in 1..k : chatHistory[r][i] = log[n - k + i]

C8_Witness ==
  /\ RoomA \in DOMAIN chatHistory
  /\ Len(accepted[RoomA]) = 101
  /\ Len(chatHistory[RoomA]) = 100
  /\ chatHistory[RoomA][1] = accepted[RoomA][2]
  /\ chatHistory[RoomA][1].timestamp = <<"2">>
  /\ chatHistory[RoomA][100].timestamp = <<"1", "0", "1">>

(* C9 - No self-echo: the sender is never among the recipients of the      *)
(* receive-message that its own send produces.                             *)
C9_NoSelfEcho ==
  \A i \in 1..Len(emitted) :
    emitted[i].event = "receive-message" => last.socket \notin emitted[i].to

C9_Witness ==
  /\ last.kind = "send-message"
  /\ Len(emitted) = 1
  /\ emitted[1].event = "receive-message"
  /\ emitted[1].to # {}
  /\ last.args.roomId \in subscribed[last.socket]

(* C10 - A join-room with an invalid room-id or a username that is empty   *)
(* after trim emits room-error to the requester only and changes none of   *)
(* the session table, registry, history store and subscriptions.           *)
C10_RejectedJoinNoChange ==
  [][\A c \in Conns :
       JoinRejected(c) => RoomErrorOnlyTo(emitted', c) /\ UNCHANGED stores]_vars

C10_Witness ==
  /\ last.kind = "join-room"
  /\ ~WellFormedRoomId(last.args.roomId) \/ EmptyAfterTrim(last.args.username)
  /\ last.socket \in DOMAIN socketToUserMap
  /\ socketToUserMap[last.socket].roomId = RoomA
  /\ socketToUserMap[last.socket].username \in Members(RoomA)
  /\ RoomA \in subscribed[last.socket]
  /\ Len(emitted) = 1
  /\ emitted[1].event = "room-error"

(* C11 - A rejected send-message (invalid room-id, empty message, empty    *)
(* username, no session, session room or username mismatch) leaves the     *)
(* session table, the registry and the history store as they were, and     *)
(* every event it causes goes to the originating connection only.          *)
SendRejected(c) ==
  /\ SendBy(c)
  /\ \/ ~WellFormedRoomId(last'.args.roomId)
     \/ EmptyAfterTrim(last'.args.message)
     \/ ~SessionMatches(c, last'.args.roomId, last'.args.username)

C11_RejectedSendNoChange ==
  [][\A c \in Conns :
       SendRejected(c) =>
         /\ UNCHANGED <<socketToUserMap, rooms, chatHistory>>
         /\ \A i \in 1..Len(emitted') : emitted'[i].to = {c}]_vars

C11_Witness ==
  /\ last.kind = "send-message"
  /\ last.socket \in DOMAIN socketToUserMap
  /\ WellFormedRoomId(last.args.roomId)
  /\ socketToUserMap[last.socket].roomId # last.args.roomId
  /\ ~EmptyAfterTrim(last.args.message)
  /\ ~EmptyAfterTrim(last.args.username)
  /\ socketToUserMap[last.socket].username = Stripped(last.args.username)
  /\ InRoom(subscribed, last.args.roomId) # {}
  /\ Len(emitted) = 1
  /\ emitted[1].event = "room-error"
  /\ emitted[1].to = {last.socket}

(* C12 - Uniqueness of members: each username recorded in a room's member  *)
(* set belongs to exactly one live session naming that room, so no two     *)
(* distinct live connections hold the same (username, room) pair.          *)
SessionsOf(u, r) == {c \in Conns : HasSession(c, u, r)}

C12_UniqueMembers ==
  /\ \A r \in DOMAIN rooms : \A u \in Members(r) : Cardinality(SessionsOf(u, r)) = 1
  /\ \A c, d \in DOMAIN socketToUserMap :
       socketToUserMap[c] = socketToUserMap[d] => c = d

(* C13 - Join backfill: a successful join-room into r sends exactly one    *)
(* chat-history event, to the requester only, whose payload is r's history *)
(* at that moment: the messages accepted in r since its history was last   *)
(* cleared (at most the last 100), in arrival order.                       *)
LastOf(log, n) ==
  LET k == IF Len(log) > n THEN n ELSE Len(log)
  IN [i \in 1..k |-> log[Len(log) - k + i]]

ChatHistoryEvents(E) == {i \in 1..Len(E) : E[i].event = "chat-history"}

C13_JoinBackfill ==
  [][\A c \in Conns :
       JoinAccepted(c) =>
         LET r == last'.args.roomId
         IN /\ Cardinality(ChatHistoryEvents(emitted')) = 1
            /\ \A i \in ChatHistoryEvents(emitted') :
                 /\ emitted'[i].to = {c}
                 /\ emitted'[i].payload = IF r \in DOMAIN chatHistory'
                                          THEN chatHistory'[r] ELSE <<>>
                 /\ emitted'[i].payload =
                      LastOf(IF r \in DOMAIN accepted' THEN accepted'[r] ELSE <<>>, 100)]_vars

C13_Witness ==
  /\ last.kind = "join-room"
  /\ last.socket = 2
  /\ Len(emitted) = 2
  /\ emitted[1].event = "chat-history"
  /\ emitted[1].to = {2}
  /\ Len(emitted[1].payload) = 100
  /\ emitted[1].payload[1].username = <<"a">>
  /\ emitted[1].payload[1].timestamp = <<"2">>
  /\ Len(accepted[RoomA]) = 101

(* C14 - Join notification: a successful join-room into r delivers an      *)
(* update-users event to every connection now in r, the requester          *)
(* included, whose payload is r's member set after the insertion and so    *)
(* contains the requester's trimmed username.                              *)
NamesRoom(S, c, r) == c \in DOMAIN S /\ S[c].roomId = r

C14_JoinNotification ==
  [][\A c \in Conns :
       JoinAccepted(c) =>
         LET r == last'.args.roomId
             e == emitted'[Len(emitted')]
         IN /\ e.event = "update-users"
            /\ c \in e.to
            /\ e.to = {d \in Conns : NamesRoom(socketToUserMap', d, r)}
            /\ e.payload = rooms'[r]
            /\ \E i \in 1..Len(e.payload) : e.payload[i] = Stripped(last'.args.username)]_vars

C14_Witness ==
  /\ last.kind = "join-room"
  /\ last.args.username = <<" ", "b", " ">>
  /\ Len(emitted) >= 2
  /\ emitted[Len(emitted)].event = "update-users"
  /\ emitted[Len(emitted)].to = {1, 2}
  /\ emitted[Len(emitted)].payload = <<<<"a">>, <<"b">>>>

(* C15 - Leave notification: when a disconnect or a rejoin-vacate removes  *)
(* a connection from room r, every connection whose session still names r  *)
(* receives an update-users event whose payload is r's member set after    *)
(* the removal and contains the username of every connection still in r;   *)
(* the departing connection is not among its recipients.                   *)
Leaves(c) == c \in DOMAIN socketToUserMap /\ (Disconnected(c) \/ JoinAccepted(c))

Remaining(c, r) == {d \in Conns \ {c} : NamesRoom(socketToUserMap', d, r)}

LeaveNotice(e, c, r) ==
  /\ e.event = "update-users"
  /\ c \notin e.to
  /\ Range(e.payload) = Members(r) \ {socketToUserMap[c].username}
  /\ \A d \in Remaining(c, r) : socketToUserMap'[d].username \in Range(e.payload)

C15_LeaveNotification ==
  [][\A c \in Conns :
       Leaves(c) =>
         LET r == socketToUserMap[c].roomId
         IN \A d \in Remaining(c, r) :
              \E i \in 1..Len(emitted') :
                d \in emitted'[i].to /\ LeaveNotice(emitted'[i], c, r)]_vars

(* C16 - History follows the live sessions: a room that no live            *)
(* connection's session names has no registry entry and no history.        *)
NamedBySomeSession(r) ==
  \E c \in connected : NamesRoom(socketToUserMap, c, r)

C16_HistoryFollowsSessions ==
  \A r \in DOMAIN rooms \cup DOMAIN chatHistory : NamedBySomeSession(r)

(* C17 - Every message that enters room r's history with username u is     *)
(* appended by a send-message of a live connection whose session is        *)
(* exactly {username: u, roomId: r} at that moment; a send from a          *)
(* connection without that session adds nothing.                           *)
Gains(r) == r \in DOMAIN chatHistory' /\ chatHistory'[r] # Get(chatHistory, r, <<>>)

C17_StoredOnlyFromSession ==
  [][/\ \A r \in DOMAIN chatHistory' :
          Gains(r) =>
            LET m == chatHistory'[r][Len(chatHistory'[r])]
                c == last'.socket
            IN /\ last'.kind = "send-message"
               /\ last'.args.roomId = r
               /\ c \in connected
               /\ c \in DOMAIN socketToUserMap
               /\ socketToUserMap[c] = [username |-> m.username, roomId |-> r]
               /\ socketToUserMap'[c] = socketToUserMap[c]
     /\ \A c \in Conns :
          (SendBy(c) /\ ~SessionMatches(c, last'.args.roomId, last'.args.username)) =>
            chatHistory' = chatHistory]_vars

C17_Witness ==
  /\ last.kind = "send-message"
  /\ last.socket \in DOMAIN socketToUserMap
  /\ last.args.roomId = RoomA
  /\ socketToUserMap[last.socket].roomId = RoomB
  /\ RoomA \in DOMAIN chatHistory
  /\ chatHistory[RoomA][1].username = socketToUserMap[last.socket].username
  /\ Stripped(last.args.username) = socketToUserMap[last.socket].username
  /\ ~EmptyAfterTrim(last.args.message)
  /\ \A d \in Conns \ {last.socket} :
       d \in DOMAIN socketToUserMap => socketToUserMap[d].username # chatHistory[RoomA][1].username
  /\ Len(emitted) = 1
  /\ emitted[1].payload = "Unauthorized message"

(* C18 - Across every event a room's history is unchanged, or is the old   *)
(* sequence with one message appended (the oldest dropped only when the    *)
(* length would exceed 100), or is removed entirely because the room       *)
(* became empty; a join-room or disconnect that does not empty the room    *)
(* leaves its history unchanged.                                           *)
HistoryUnchanged(r) ==
  /\ (r \in DOMAIN chatHistory) = (r \in DOMAIN chatHistory')
  /\ r \in DOMAIN chatHistory => chatHistory'[r] = chatHistory[r]

HistoryAppended(r) ==
  /\ last'.kind = "send-message"
  /\ last'.args.roomId = r
  /\ r \in DOMAIN chatHistory'
  /\ LET old == IF r \in DOMAIN chatHistory THEN chatHistory[r] ELSE <<>>
         new == chatHistory'[r]
         kept == IF Len(old) < 100 THEN old ELSE Tail(old)
     IN /\ Len(new) = Len(kept) + 1
        /\ \A i \in 1..Len(kept) : new[i] = kept[i]

HistoryCleared(r) ==
  /\ r \in DOMAIN chatHistory
  /\ r \notin DOMAIN chatHistory'
  /\ \E c \in Conns :
       /\ Leaves(c)
       /\ socketToUserMap[c].roomId = r
       /\ Members(r) = {socketToUserMap[c].username}

C18_HistoryChanges ==
  [][\A r \in DOMAIN chatHistory \cup DOMAIN chatHistory' :
       HistoryUnchanged(r) \/ HistoryAppended(r) \/ HistoryCleared(r)]_vars

C18_Witness ==
  /\ last.kind = "disconnect"
  /\ last.socket = 2
  /\ Len(emitted) = 1
  /\ emitted[1].payload = <<<<"a">>>>
  /\ RoomA \in DOMAIN chatHistory
  /\ Len(chatHistory[RoomA]) = 100
  /\ Len(accepted[RoomA]) = 101

(* C19 - Transport subscription matches the session: a connection with a   *)
(* session is subscribed to exactly the room its session names, one        *)
(* without a session to none; so a broadcast to room r reaches exactly the *)
(* connections whose session names r.                                      *)
C19_SubscriptionMatchesSession ==
  /\ \A c \in Conns :
       subscribed[c] = IF c \in DOMAIN socketToUserMap
                       THEN {socketToUserMap[c].roomId} ELSE {}
  /\ \A r \in KnownRooms :
       IoTo(subscribed, r) = {c \in Conns : NamesRoom(socketToUserMap, c, r)}

C19_Witness ==
  /\ last.kind = "join-room"
  /\ Len(emitted) = 3
  /\ last.socket \in DOMAIN socketToUserMap
  /\ socketToUserMap[last.socket].roomId = RoomB
  /\ subscribed[last.socket] = {RoomB}
  /\ emitted[1].event = "update-users"
  /\ emitted[1].to # {}
  /\ \E d \in Conns : subscribed[d] = {RoomA}

(* C20 - Same-room rejoin is idempotent: a connection with session         *)
(* {username: u, roomId: r} that successfully joins r again as u leaves    *)
(* the registry, r's history and the session table as they were, and the   *)
(* chat-history it receives is r's history before the event.               *)
SameRoomRejoin(c) ==
  /\ c \in DOMAIN socketToUserMap
  /\ JoinAccepted(c)
  /\ last'.args.roomId = socketToUserMap[c].roomId
  /\ Stripped(last'.args.username) = socketToUserMap[c].username

MemberSets(R) == [r \in DOMAIN R |-> Range(R[r])]

ReceivedHistory(E, h) ==
  \E i \in 1..Len(E) : E[i].event = "chat-history" /\ E[i].payload = h

C20_RejoinIdempotentAsClaimed ==
  [][\A c \in Conns :
       SameRoomRejoin(c) =>
         LET r == socketToUserMap[c].roomId
             before == IF r \in DOMAIN chatHistory THEN chatHistory[r] ELSE <<>>
         IN /\ MemberSets(rooms') = MemberSets(rooms)
            /\ HistoryUnchanged(r)
            /\ socketToUserMap' = socketToUserMap
            /\ ReceivedHistory(emitted', before)]_vars

(* C20 (amended) - the session table is as it was and r's member set       *)
(* afterwards is the previous one with u added; r's history is unchanged   *)
(* and is the chat-history received, unless u was the only username in r's *)
(* member set, in which case r's history is cleared and the chat-history   *)
(* received is empty.                                                      *)
C20_RejoinIdempotent ==
  [][\A c \in Conns :
       SameRoomRejoin(c) =>
         LET r == socketToUserMap[c].roomId
             u == socketToUserMap[c].username
             before == IF r \in DOMAIN chatHistory THEN chatHistory[r] ELSE <<>>
         IN /\ socketToUserMap' = socketToUserMap
            /\ DOMAIN rooms' = DOMAIN rooms \cup {r}
            /\ \A q \in DOMAIN rooms' :
                 Range(rooms'[q]) = IF q = r THEN Members(r) \cup {u} ELSE Members(q)
            /\ \A q \in (DOMAIN chatHistory \cup DOMAIN chatHistory') \ {r} :
                 HistoryUnchanged(q)
            /\ IF Members(r) = {u}
               THEN r \notin DOMAIN chatHistory' /\ ReceivedHistory(emitted', <<>>)
               ELSE HistoryUnchanged(r) /\ ReceivedHistory(emitted', before)]_vars

C20_Witness ==
  /\ last.kind = "join-room"
  /\ Len(emitted) = 3
  /\ last.socket \in DOMAIN socketToUserMap
  /\ emitted[1].event = "update-users"
  /\ emitted[1].to # {}
  /\ last.socket \notin emitted[1].to
  /\ Len(emitted[1].payload) = 1
  /\ last.args.roomId \in subscribed[CHOOSE d \in emitted[1].to : TRUE]
  /\ emitted[2].event = "chat-history"
  /\ Len(emitted[2].payload) = 1
  /\ Len(emitted[3].payload) = 2

====
